---- MODULE Spec2Model ----
(***************************************************************************)
(* Model of scripts/generate_merge_doc.py: one run of main(), from version *)
(* detection to the write of the markdown file.                            *)
(*                                                                         *)
(* Text is a sequence of one-character strings, so that strip, split,      *)
(* join and the re.sub collapsing rule are computed character by           *)
(* character.  A path is a sequence of components.                         *)
(***************************************************************************)
EXTENDS Integers, Sequences, FiniteSets, TLC

VARIABLES
    args,         \* parsed command line: before, after, repository, output_dir
    files,        \* the four manifest files of the working directory
    tag,          \* outcome of git describe --tags --abbrev=0
    git,          \* outcomes of the git log / git diff queries
    fs,           \* whether mkdir / write_text succeed
    clock,        \* the UTC date, as DDMMYYYY
    pc,           \* position of main()
    tried,        \* version sources evaluated so far, in order
    version,      \* local version of main
    queries,      \* git log / diff command lines issued so far
    summary,      \* ChangeSummary
    description,  \* result of guess_description
    title,        \* local title of main
    out_dir,      \* local out_dir of main (a path)
    out_file,     \* local out_file of main (a path)
    disk,         \* directories made and files written by the run
    exit_code,    \* exit status of the process, -1 while running
    error         \* the exception that ended the run, "" if none

vars == <<args, files, tag, git, fs, clock, pc, tried, version, queries,
          summary, description, title, out_dir, out_file, disk, exit_code, error>>

-----------------------------------------------------------------------------
(* Bounds of the model *)

MaxLen == 3

MaxCommits == 32

MaxFiles == 32

-----------------------------------------------------------------------------
(* Text helpers *)

Min(a, b) == IF a < b THEN a ELSE b

Digits == {"0", "1", "2", "3", "4", "5", "6", "7", "8", "9"}

UpperCase == {"A", "B", "C", "D", "E", "F", "G", "H", "I", "J", "K", "L", "M",
              "N", "O", "P", "Q", "R", "S", "T", "U", "V", "W", "X", "Y", "Z"}

LowerCase == {"a", "b", "c", "d", "e", "f", "g", "h", "i", "j", "k", "l", "m",
              "n", "o", "p", "q", "r", "s", "t", "u", "v", "w", "x", "y", "z"}

\* the character class 0-9A-Za-z._- of the collapsing rule
AllowedChars == Digits \cup UpperCase \cup LowerCase \cup {".", "_", "-"}

Whitespace == {" ", "\t", "\n", "\r"}

LineBreaks == {"\n", "\r"}

RECURSIVE LStrip(_)
LStrip(s) ==
    IF s = <<>> THEN <<>>
    ELSE IF Head(s) \in Whitespace THEN LStrip(Tail(s)) ELSE s

RECURSIVE RStrip(_)
RStrip(s) ==
    IF s = <<>> THEN <<>>
    ELSE IF s[Len(s)] \in Whitespace THEN RStrip(SubSeq(s, 1, Len(s) - 1)) ELSE s

\* str.strip()
Strip(s) == RStrip(LStrip(s))

\* The pieces of s between the characters of the set seps.  The text is cut
\* in two halves and the pieces of the halves are put together: the last
\* piece of the left half continues in the first piece of the right half.
RECURSIVE SplitOn(_, _)
SplitOn(s, seps) ==
    IF Len(s) = 0 THEN <<<<>>>>
    ELSE IF Len(s) = 1 THEN (IF s[1] \in seps THEN <<<<>>, <<>>>> ELSE <<s>>)
    ELSE LET h == Len(s) \div 2
             l == SplitOn(SubSeq(s, 1, h), seps)
             r == SplitOn(SubSeq(s, h + 1, Len(s)), seps)
         IN  SubSeq(l, 1, Len(l) - 1) \o <<l[Len(l)] \o r[1]>> \o Tail(r)

\* str.split(sep), sep one character
Split(s, sep) == SplitOn(s, {sep})

\* str.splitlines(): "\r\n" is one line break, and a line break at the end
\* opens no last empty line
SplitLines(s) ==
    LET marked == [i \in 1..Len(s) |->
                      IF s[i] = "\r" /\ i < Len(s) /\ s[i + 1] = "\n" THEN "" ELSE s[i]]
        pieces == SplitOn(SelectSeq(marked, LAMBDA c : c # ""), LineBreaks)
    IN  IF pieces[Len(pieces)] = <<>> THEN SubSeq(pieces, 1, Len(pieces) - 1) ELSE pieces

\* sep.join(parts)
RECURSIVE Join(_, _)
Join(parts, sep) ==
    IF Len(parts) = 0 THEN <<>>
    ELSE IF Len(parts) = 1 THEN parts[1]
    ELSE LET h == Len(parts) \div 2
         IN  Join(SubSeq(parts, 1, h), sep) \o sep
                 \o Join(SubSeq(parts, h + 1, Len(parts)), sep)

\* [x.strip() for x in lines if x.strip()]
StripNonEmpty(lines) ==
    SelectSeq([i \in 1..Len(lines) |-> Strip(lines[i])], LAMBDA x : x # <<>>)

\* re.sub(r"[^0-9A-Za-z._-]+", "_", s): each maximal run of characters outside
\* the class becomes one "_"
RECURSIVE CollapseAcc(_, _)
CollapseAcc(s, inRun) ==
    IF s = <<>> THEN <<>>
    ELSE IF Head(s) \in AllowedChars THEN <<Head(s)>> \o CollapseAcc(Tail(s), FALSE)
    ELSE IF inRun THEN CollapseAcc(Tail(s), TRUE)
    ELSE <<"_">> \o CollapseAcc(Tail(s), TRUE)

\* variant: only runs of white space are collapsed
CollapseSpacesOnly(s) ==
    LET marked == [i \in 1..Len(s) |->
                      IF s[i] \in Whitespace
                      THEN (IF i > 1 /\ s[i - 1] \in Whitespace THEN "" ELSE "_")
                      ELSE s[i]]
    IN  SelectSeq(marked, LAMBDA c : c # "")

Collapse(s) == CollapseAcc(s, FALSE)

\* all texts over the alphabet A of length at most n
Texts(A, n) == UNION {[1..k -> A] : k \in 0..n}

-----------------------------------------------------------------------------
(* Literals of the source.  A letter outside ASCII is one character, written *)
(* by its name ("c_cedilla"), and so is the backquote ("backtick"); none of  *)
(* them is in the class of the collapsing rule.                              *)

DefaultDirName ==
    <<"r", "e", "p", "o", "s", "i", "t", "o", "r", "y">>

DefaultVersion ==
    <<"0", ".", "0", ".", "0">>

CommitBullet ==
    <<"-", " ">>

FileBulletOpen ==
    <<"-", " ", "A", "t", "u", "a", "l", "i", "z", "a", "c_cedilla",
      "a_tilde", "o", " ", "e", "m", " ", "backtick">>

FileBulletClose ==
    <<"backtick">>

NotInferred ==
    <<"-", " ", "A", "l", "t", "e", "r", "a", "c_cedilla", "o_tilde", "e",
      "s", " ", "d", "o", " ", "m", "e", "r", "g", "e", " ", "n", "a_tilde",
      "o", " ", "p", "u", "d", "e", "r", "a", "m", " ", "s", "e", "r", " ",
      "i", "n", "f", "e", "r", "i", "d", "a", "s", " ", "a", "u", "t", "o",
      "m", "a", "t", "i", "c", "a", "m", "e", "n", "t", "e", ".">>

HeadingDescription ==
    <<"#", "#", " ", "D", "e", "s", "c", "r", "i", "c_cedilla", "a_tilde",
      "o", " ", "d", "a", "s", " ", "a", "l", "t", "e", "r", "a",
      "c_cedilla", "o_tilde", "e", "s", "\n", "\n">>

TemplateRest ==
    <<"#", "#", " ", "R", "e", "g", "r", "a", "s", " ", "d", "e", " ", "n",
      "e", "g", "o_acute", "c", "i", "o", " ", "e", " ", "t", "e_acute", "c",
      "n", "i", "c", "a", "s", "\n", "\n", "-", " ", "(", "P", "r", "e", "e",
      "n", "c", "h", "e", "r", ")", "\n", "\n", "#", "#", " ", "E", "x", "e",
      "m", "p", "l", "o", "s", " ", "d", "e", " ", "u", "t", "i", "l", "i",
      "z", "a", "c_cedilla", "a_tilde", "o", " ", "d", "a", " ", "m", "u",
      "d", "a", "n", "c_cedilla", "a", " ", "r", "e", "a", "l", "i", "z",
      "a", "d", "a", "\n", "\n", "-", " ", "(", "P", "r", "e", "e", "n", "c",
      "h", "e", "r", ")", "\n", "\n", "#", "#", " ", "F", "o", "r", "m", "a",
      " ", "d", "e", " ", "t", "e", "s", "t", "a", "r", " ", "e", "s", "s",
      "a", " ", "m", "u", "d", "a", "n", "c_cedilla", "a", "\n", "\n", "-",
      " ", "(", "P", "r", "e", "e", "n", "c", "h", "e", "r", ")", "\n">>

ZeroRefLen == 40

\* "0000000000000000000000000000000000000000"
ZeroRef == [i \in 1..ZeroRefLen |-> "0"]

\* the slices [:30] of guess_description
MaxBullets == 30

\* exit status of an interpreter ended by an uncaught exception
UncaughtExit == 1

-----------------------------------------------------------------------------
(* Refs and the directory name *)

HexChars == Digits \cup {"a", "b", "c", "d", "e", "f", "A", "B", "C", "D", "E", "F"}

IsHexRef(r) == Len(r) >= 7 /\ Len(r) <= 40 /\ \A i \in 1..Len(r) : r[i] \in HexChars

safe_ref(ref) ==
    LET r == Strip(ref)
    IN  IF r = <<>> THEN <<>>
        ELSE IF IsHexRef(r) THEN r
        ELSE r

\* variant: the whole identifier is collapsed, no last segment is taken
repo_dir_name_whole_identifier(repository) ==
    LET r == Strip(repository)
        name == IF r # <<>> THEN r ELSE DefaultDirName
        collapsed == Collapse(name)
    IN  IF collapsed # <<>> THEN collapsed ELSE DefaultDirName

repo_dir_name(repository) ==
    LET r == Strip(repository)
        segs == Split(r, "/")
        name == IF r # <<>> THEN segs[Len(segs)] ELSE DefaultDirName
        collapsed == Collapse(name)
    IN  IF collapsed # <<>> THEN collapsed ELSE DefaultDirName

-----------------------------------------------------------------------------
(* Outcome of a call: a value returned, or an exception raised *)

Ret(v) == [exc |-> "", val |-> v]

Raise(e) == [exc |-> e, val |-> <<>>]

(* A manifest file is a record                                              *)
(*   kind    "missing", "oserror" (exists, the read fails), "badutf8"       *)
(*           (exists, holds bytes that are not UTF-8) or "text";            *)
(*   syntax  for package.json: "ok" (a JSON object), "notdict" (JSON, not   *)
(*           an object) or "invalid" (not JSON);                            *)
(*   found   whether the version field / the version pattern is there;      *)
(*   section for pyproject.toml, whether the version line follows the       *)
(*           [project] header;                                              *)
(*   ver     the text of the field / the captured group, before strip.      *)

\* subprocess.run(...) then (returncode, stdout.strip())
sh_allow_fail(p) == [rc |-> p.rc, out |-> Strip(p.stdout)]

_version_from_package_json(f) ==
    IF f.kind = "missing" THEN Ret(<<>>)
    ELSE IF f.kind \in {"oserror", "badutf8"} THEN Ret(<<>>)
    ELSE IF f.syntax \in {"invalid", "notdict"} THEN Ret(<<>>)
    ELSE Ret(Strip(IF f.found THEN f.ver ELSE <<>>))

_version_from_pyproject(f) ==
    IF f.kind = "missing" THEN Ret(<<>>)
    ELSE IF f.kind = "oserror" THEN Raise("OSError")
    ELSE IF f.kind = "badutf8" THEN Raise("UnicodeDecodeError")
    ELSE IF f.found THEN Ret(Strip(f.ver))
    ELSE IF f.found /\ f.section THEN Ret(Strip(f.ver))
    ELSE Ret(<<>>)

\* read_text(errors="ignore"): undecodable bytes are dropped, the read itself
\* can still fail
_version_from_pom(f) ==
    IF f.kind = "missing" THEN Ret(<<>>)
    ELSE IF f.kind = "oserror" THEN Raise("OSError")
    ELSE IF f.found THEN Ret(Strip(f.ver))
    ELSE Ret(<<>>)

_version_from_cargo(f) ==
    IF f.kind = "missing" THEN Ret(<<>>)
    ELSE IF f.kind = "oserror" THEN Raise("OSError")
    ELSE IF f.kind = "badutf8" THEN Raise("UnicodeDecodeError")
    ELSE IF f.found THEN Ret(Strip(f.ver))
    ELSE Ret(<<>>)

_version_from_git_tag(p) ==
    LET r == sh_allow_fail(p)
    IN  IF r.rc = 0 /\ r.out # <<>> THEN Ret(r.out) ELSE Ret(<<>>)

-----------------------------------------------------------------------------
(* summarize_changes *)

\* variant: the zero sentinel is not recognised
log_range_no_sentinel(before, after) ==
    LET b == safe_ref(before)
        a == safe_ref(after)
    IN  IF b = <<>> THEN a ELSE b \o <<".", ".">> \o a

log_range(before, after) ==
    LET b == safe_ref(before)
        a == safe_ref(after)
    IN  IF b = ZeroRef \/ b = <<>> THEN a ELSE b \o <<".", ".">> \o a

diff_range(before, after) ==
    LET b == safe_ref(before)
        a == safe_ref(after)
    IN  IF b = ZeroRef \/ b = <<>> THEN a ELSE b \o <<".", ".">> \o a

\* What git answers to "git <tool> ... <range>" in this run: one outcome for
\* the range that is the after ref alone, one for any other range
GitRun(tool, range) ==
    IF range = safe_ref(args.after) THEN git[tool].alone ELSE git[tool].ranged

\* variant: the output is used whatever the exit status
summarize_changes_ignores_rc(before, after) ==
    LET lr == log_range(before, after)
        dr == diff_range(before, after)
        l == sh_allow_fail(GitRun("log", lr))
        d == sh_allow_fail(GitRun("diff", dr))
        commits_out == IF lr # <<>> THEN l.out ELSE <<>>
        files_out == IF dr # <<>> THEN d.out ELSE <<>>
    IN  [commits |-> StripNonEmpty(SplitLines(commits_out)),
         files_changed |-> StripNonEmpty(SplitLines(files_out))]

summarize_changes(before, after) ==
    LET lr == log_range(before, after)
        dr == diff_range(before, after)
        l == sh_allow_fail(GitRun("log", lr))
        d == sh_allow_fail(GitRun("diff", dr))
        commits_out == IF lr # <<>> /\ l.rc = 0 THEN l.out ELSE <<>>
        files_out == IF dr # <<>> /\ d.rc = 0 THEN d.out ELSE <<>>
    IN  [commits |-> StripNonEmpty(SplitLines(commits_out)),
         files_changed |-> StripNonEmpty(SplitLines(files_out))]

\* the command lines summarize_changes runs, in order
issued_queries(before, after) ==
    LET lr == log_range(before, after)
        dr == diff_range(before, after)
    IN  (IF lr # <<>> THEN <<[tool |-> "log", range |-> lr]>> ELSE <<>>)
        \o (IF dr # <<>> THEN <<[tool |-> "diff", range |-> dr]>> ELSE <<>>)

-----------------------------------------------------------------------------
(* guess_description and make_markdown *)

\* seq[:n]
Take(seq, n) == SubSeq(seq, 1, Min(n, Len(seq)))

\* variant: no cap on the number of bullets
guess_description_uncapped(s) ==
    IF s.commits # <<>>
    THEN Join([i \in 1..Len(s.commits) |-> CommitBullet \o s.commits[i]], <<"\n">>)
    ELSE IF s.files_changed # <<>>
    THEN Join([i \in 1..Len(s.files_changed) |->
                  FileBulletOpen \o s.files_changed[i] \o FileBulletClose], <<"\n">>)
    ELSE NotInferred

\* variant: the changed files are looked at before the commits
guess_description_files_first(s) ==
    IF s.files_changed # <<>>
    THEN Join([i \in 1..Len(Take(s.files_changed, MaxBullets)) |->
                  FileBulletOpen \o s.files_changed[i] \o FileBulletClose], <<"\n">>)
    ELSE IF s.commits # <<>>
    THEN Join([i \in 1..Len(Take(s.commits, MaxBullets)) |->
                  CommitBullet \o s.commits[i]], <<"\n">>)
    ELSE NotInferred

guess_description(s) ==
    IF s.commits # <<>>
    THEN Join([i \in 1..Len(Take(s.commits, MaxBullets)) |->
                  CommitBullet \o s.commits[i]], <<"\n">>)
    ELSE IF s.files_changed # <<>>
    THEN Join([i \in 1..Len(Take(s.files_changed, MaxBullets)) |->
                  FileBulletOpen \o s.files_changed[i] \o FileBulletClose], <<"\n">>)
    ELSE NotInferred

make_markdown(t, v, description_md) ==
    <<"#", " ">> \o t \o <<" ", "(", "v">> \o v \o <<")", "\n", "\n">>
    \o HeadingDescription \o description_md \o <<"\n", "\n">> \o TemplateRest

-----------------------------------------------------------------------------
(* Paths *)

\* the components of a path text: empty components and "." are dropped
PathParts(s) == SelectSeq(Split(s, "/"), LAMBDA c : c # <<>> /\ c # <<".">>)

\* p / s
PathJoin(p, s) ==
    IF s # <<>> /\ s[1] = "/" THEN <<<<"/">>>> \o PathParts(s) ELSE p \o PathParts(s)

\* Path(s)
Path(s) == PathJoin(<<>>, s)

\* the place the file system gives a path: ".." steps to the parent
RECURSIVE ResolveAcc(_, _)
ResolveAcc(p, done) ==
    IF p = <<>> THEN done
    ELSE IF Head(p) = <<".", ".">> /\ done # <<>> /\ done[Len(done)] # <<".", ".">>
         THEN ResolveAcc(Tail(p), SubSeq(done, 1, Len(done) - 1))
    ELSE ResolveAcc(Tail(p), Append(done, Head(p)))

Resolve(p) == ResolveAcc(p, <<>>)

-----------------------------------------------------------------------------
(* The inputs of a run *)

VersionPkg == <<"2", ".", "3", ".", "1">>

VersionPyproject == <<"1", ".", "2", ".", "0">>

VersionPom == <<"3", ".", "0">>

VersionCargo == <<"0", ".", "4", ".", "1">>

VersionTag == <<"v", "5", ".", "0">>

MissingFile == [kind |-> "missing", syntax |-> "ok", found |-> FALSE, section |-> FALSE, ver |-> <<>>]

UnreadableFile(k) == [kind |-> k, syntax |-> "ok", found |-> FALSE, section |-> FALSE, ver |-> <<>>]

BadJsonFile(s) == [kind |-> "text", syntax |-> s, found |-> FALSE, section |-> FALSE, ver |-> <<>>]

NoVersionFile == [kind |-> "text", syntax |-> "ok", found |-> FALSE, section |-> FALSE, ver |-> <<>>]

VersionFile(v) == [kind |-> "text", syntax |-> "ok", found |-> TRUE, section |-> FALSE, ver |-> v]

\* the states of package.json the model tells apart
PackageJsonStates ==
    {MissingFile, UnreadableFile("oserror"), UnreadableFile("badutf8"),
     BadJsonFile("invalid"), BadJsonFile("notdict"), NoVersionFile,
     VersionFile(<<" ">>), VersionFile(VersionPkg)}

\* the states of a manifest read with a regular expression
ManifestStates(v) ==
    {MissingFile, UnreadableFile("oserror"), UnreadableFile("badutf8"),
     NoVersionFile, VersionFile(<<" ">>), VersionFile(v),
     [VersionFile(<<" ">> \o v) EXCEPT !.section = TRUE]}

TagFail == [rc |-> 128, stdout |-> <<"f", "a", "t", "a", "l", "\n">>]

TagStates == {TagFail, [rc |-> 0, stdout |-> <<>>], [rc |-> 0, stdout |-> VersionTag \o <<"\n">>]}

GitFail == [rc |-> 128, stdout |-> <<"f", "a", "t", "a", "l", "\n">>]

LogAloneStates == {GitFail, [rc |-> 0, stdout |-> <<>>], [rc |-> 0, stdout |-> <<"a", "\n", "b", "\n">>]}

LogRangedStates == {GitFail, [rc |-> 0, stdout |-> <<"c", "\n">>], [rc |-> 0, stdout |-> <<" ", "d", " ", "\n", "\n", "e", " ", "f", "\n">>]}

DiffAloneStates == {GitFail, [rc |-> 0, stdout |-> <<>>], [rc |-> 0, stdout |-> <<"x", ".", "p", "y", "\n", "y", "/", "z", "\n">>]}

DiffRangedStates == {GitFail, [rc |-> 0, stdout |-> <<"w", "\n">>], [rc |-> 0, stdout |-> <<"u", "/", "v", ".", "m", "d", "\n", "w", "\n">>]}

BeforeRefs ==
    {<<>>, <<" ">>, ZeroRef, <<" ">> \o ZeroRef \o <<"\n">>, Tail(ZeroRef),
     <<"a", "b", "c", "1", "2", "3", "4">>, <<"H", "E", "A", "D", "~", "1">>}

AfterRefs == {<<>>, <<"d", "e", "f", "5", "6", "7", "8">>, <<" ", "m", "a", "i", "n", " ">>}

RepoAlphabet == {"a", "/", ".", " ", "e_acute"}

VersionAlphabet == {"1", ".", " ", "/", "+"}

Today == <<"0", "3", "1", "1", "2", "0", "2", "6">>

Subjects == <<<<"f", "i", "x", " ", "a">>, <<"b">>, <<"a", "d", "d", " ", "c">>>>

FileNames == <<<<"a", ".", "p", "y">>, <<"b", "/", "c">>, <<"d">>>>

\* stdout of a git command that prints n lines, the i-th taken from names
Listing(names, n) ==
    [rc |-> 0, stdout |-> Join([i \in 1..n |-> names[(i % Len(names)) + 1] \o <<"\n">>], <<>>)]

BaseArgs ==
    [before |-> <<"a", "b", "c", "1", "2", "3", "4">>, after |-> <<"d", "e", "f", "5", "6", "7", "8">>,
     repository |-> <<"a", "c", "m", "e", "/", "w", "i", "d", "g", "e", "t", "s">>, output_dir |-> <<"o", "u", "t">>]

BaseFiles ==
    [package_json |-> VersionFile(VersionPkg), pyproject |-> MissingFile,
     pom |-> MissingFile, cargo |-> MissingFile]

BaseGit ==
    [log |-> [alone |-> Listing(Subjects, 2), ranged |-> Listing(Subjects, 1)],
     diff |-> [alone |-> Listing(FileNames, 2), ranged |-> Listing(FileNames, 1)]]

BaseFs == [mkdir |-> TRUE, write |-> TRUE]

\* every state of the manifests and of the tag lookup
InitDetect ==
    /\ files \in [package_json : PackageJsonStates, pyproject : ManifestStates(VersionPyproject),
                  pom : ManifestStates(VersionPom), cargo : ManifestStates(VersionCargo)]
    /\ tag \in TagStates
    /\ args = BaseArgs /\ git = BaseGit /\ fs = BaseFs

\* every pair of refs and every outcome of the two git queries
InitRefs ==
    /\ args \in [before : BeforeRefs, after : AfterRefs,
                 repository : {BaseArgs.repository}, output_dir : {BaseArgs.output_dir}]
    /\ git \in [log : [alone : LogAloneStates, ranged : LogRangedStates],
                diff : [alone : DiffAloneStates, ranged : DiffRangedStates]]
    /\ files = BaseFiles /\ tag = TagFail /\ fs = BaseFs

\* every length of the commit list and of the file list
InitLists ==
    /\ \E n \in 0..MaxCommits, m \in 0..MaxFiles :
          git = [log |-> [alone |-> GitFail, ranged |-> Listing(Subjects, n)],
                 diff |-> [alone |-> GitFail, ranged |-> Listing(FileNames, m)]]
    /\ args = BaseArgs /\ files = BaseFiles /\ tag = TagFail /\ fs = BaseFs

\* every repository identifier, with and without file system failures
InitRepository ==
    /\ args \in [before : {BaseArgs.before}, after : {BaseArgs.after},
                 repository : Texts(RepoAlphabet, MaxLen), output_dir : {BaseArgs.output_dir}]
    /\ fs \in {BaseFs, [mkdir |-> FALSE, write |-> TRUE], [mkdir |-> TRUE, write |-> FALSE]}
    /\ files = BaseFiles /\ tag = TagFail /\ git = BaseGit

\* every version text in package.json
InitVersion ==
    /\ files \in [package_json : {VersionFile(v) : v \in Texts(VersionAlphabet, MaxLen)},
                  pyproject : {MissingFile}, pom : {MissingFile}, cargo : {MissingFile}]
    /\ args = BaseArgs /\ tag = TagFail /\ git = BaseGit /\ fs = BaseFs

Init ==
    /\ \/ InitDetect
       \/ InitRefs
       \/ InitLists
       \/ InitRepository
       \/ InitVersion
    /\ clock = Today
    /\ pc = "package_json"
    /\ tried = <<>>
    /\ version = <<>>
    /\ queries = <<>>
    /\ summary = [commits |-> <<>>, files_changed |-> <<>>]
    /\ description = <<>>
    /\ title = <<>>
    /\ out_dir = <<>>
    /\ out_file = <<>>
    /\ disk = [dirs |-> {}, files |-> {}]
    /\ exit_code = -1
    /\ error = ""

-----------------------------------------------------------------------------
(* main(), one action per step *)

inputs == <<args, files, tag, git, fs, clock>>

\* an uncaught exception ends the interpreter
Crash(e) ==
    /\ pc' = "crashed"
    /\ error' = e
    /\ exit_code' = UncaughtExit

\* variant: a non-empty result is kept but the next source is tried all the same
DetectStepKeepsLooking(here, name, r, next) ==
    /\ pc = here
    /\ tried' = Append(tried, name)
    /\ IF r.exc # "" THEN Crash(r.exc) /\ UNCHANGED version
       ELSE IF r.val # <<>>
            THEN pc' = next /\ version' = r.val /\ UNCHANGED <<error, exit_code>>
       ELSE pc' = next /\ UNCHANGED <<version, error, exit_code>>
    /\ UNCHANGED <<inputs, queries, summary, description, title, out_dir, out_file, disk>>

\* one step of detect_version: the source called name gave outcome r; next is the
\* source tried when it gave the empty text
DetectStep(here, name, r, next) ==
    /\ pc = here
    /\ tried' = Append(tried, name)
    /\ IF r.exc # "" THEN Crash(r.exc) /\ UNCHANGED version
       ELSE IF r.val # <<>>
            THEN pc' = "summarize" /\ version' = r.val /\ UNCHANGED <<error, exit_code>>
       ELSE pc' = next /\ UNCHANGED <<version, error, exit_code>>
    /\ UNCHANGED <<inputs, queries, summary, description, title, out_dir, out_file, disk>>

DetectPackageJson ==
    DetectStep("package_json", "package.json",
               _version_from_package_json(files.package_json), "pyproject")

DetectPyproject ==
    DetectStep("pyproject", "pyproject.toml",
               _version_from_pyproject(files.pyproject), "pom")

DetectPom ==
    DetectStep("pom", "pom.xml", _version_from_pom(files.pom), "cargo")

DetectCargo ==
    DetectStep("cargo", "Cargo.toml", _version_from_cargo(files.cargo), "git_tag")

DetectGitTag ==
    DetectStep("git_tag", "git tag", _version_from_git_tag(tag), "default")

DetectDefault ==
    /\ pc = "default"
    /\ version' = DefaultVersion
    /\ pc' = "summarize"
    /\ UNCHANGED <<inputs, tried, queries, summary, description, title, out_dir,
                   out_file, disk, exit_code, error>>

Summarize ==
    /\ pc = "summarize"
    /\ summary' = summarize_changes(args.before, args.after)
    /\ queries' = queries \o issued_queries(args.before, args.after)
    /\ pc' = "describe"
    /\ UNCHANGED <<inputs, tried, version, description, title, out_dir, out_file,
                   disk, exit_code, error>>

Describe ==
    /\ pc = "describe"
    /\ description' = guess_description(summary)
    /\ title' = <<"v">> \o version \o <<" ", "-", " ">> \o clock
    /\ pc' = "mkdir"
    /\ UNCHANGED <<inputs, tried, version, queries, summary, out_dir, out_file,
                   disk, exit_code, error>>

MakeDir ==
    /\ pc = "mkdir"
    /\ out_dir' = PathJoin(Path(args.output_dir), repo_dir_name(args.repository))
    /\ IF fs.mkdir
       THEN /\ disk' = [disk EXCEPT !.dirs = @ \cup {Resolve(out_dir')}]
            /\ pc' = "write"
            /\ UNCHANGED <<error, exit_code>>
       ELSE Crash("OSError") /\ UNCHANGED disk
    /\ UNCHANGED <<inputs, tried, version, queries, summary, description, title, out_file>>

safe_version(v) == Collapse(v)

file_name(v, date_str) == <<"v">> \o safe_version(v) \o <<"-">> \o date_str \o <<".", "m", "d">>

WriteFile ==
    /\ pc = "write"
    /\ out_file' = PathJoin(out_dir, file_name(version, clock))
    /\ IF fs.write
       THEN /\ disk' = [disk EXCEPT !.files =
                           {f \in @ : f.path # Resolve(out_file')}
                           \cup {[path |-> Resolve(out_file'),
                                  text |-> make_markdown(title, version, description)]}]
            /\ pc' = "written"
            /\ UNCHANGED <<error, exit_code>>
       ELSE Crash("OSError") /\ UNCHANGED disk
    /\ UNCHANGED <<inputs, tried, version, queries, summary, description, title, out_dir>>

Return ==
    /\ pc = "written"
    /\ exit_code' = 0
    /\ pc' = "done"
    /\ UNCHANGED <<inputs, tried, version, queries, summary, description, title,
                   out_dir, out_file, disk, error>>

Next ==
    \/ DetectPackageJson
    \/ DetectPyproject
    \/ DetectPom
    \/ DetectCargo
    \/ DetectGitTag
    \/ DetectDefault
    \/ Summarize
    \/ Describe
    \/ MakeDir
    \/ WriteFile
    \/ Return

Spec == Init /\ [][Next]_vars

TypeOK ==
    /\ pc \in {"package_json", "pyproject", "pom", "cargo", "git_tag", "default",
               "summarize", "describe", "mkdir", "write", "written", "done", "crashed"}
    /\ exit_code \in {-1, 0, UncaughtExit}

-----------------------------------------------------------------------------
(* Vocabulary of the properties *)

\* positions of main() after detect_version has returned
AfterDetect == {"summarize", "describe", "mkdir", "write", "written", "done"}

\* positions after summarize_changes has returned
AfterSummarize == {"describe", "mkdir", "write", "written", "done"}

\* positions after guess_description has returned
AfterDescribe == {"mkdir", "write", "written", "done"}

SourceOrder == <<"package.json", "pyproject.toml", "pom.xml", "Cargo.toml", "git tag">>

\* what the i-th source yields in this run
SourceOutcome(i) ==
    CASE i = 1 -> _version_from_package_json(files.package_json)
      [] i = 2 -> _version_from_pyproject(files.pyproject)
      [] i = 3 -> _version_from_pom(files.pom)
      [] i = 4 -> _version_from_cargo(files.cargo)
      [] i = 5 -> _version_from_git_tag(tag)

\* the manifest the i-th source reads
SourceFile(i) ==
    CASE i = 1 -> files.package_json
      [] i = 2 -> files.pyproject
      [] i = 3 -> files.pom
      [] i = 4 -> files.cargo

\* the file is missing, or reading or parsing it raises
Unusable(f) == f.kind \in {"missing", "oserror", "badutf8"} \/ f.syntax # "ok"

AllAllowed(s) == \A i \in 1..Len(s) : s[i] \in AllowedChars

\* the last "/"-separated segment of a text
LastSegment(s) == Split(s, "/")[Len(Split(s, "/"))]

\* the text is a single path component naming a proper child
ProperComponent(s) ==
    /\ s # <<>>
    /\ \A i \in 1..Len(s) : s[i] # "/"
    /\ s # <<".">>
    /\ s # <<".", ".">>

FileBullets(fs_) ==
    Join([i \in 1..Min(Len(fs_), MaxBullets) |-> FileBulletOpen \o fs_[i] \o FileBulletClose],
         <<"\n">>)

-----------------------------------------------------------------------------
(* C1: detect_version evaluates package.json, pyproject.toml, pom.xml,      *)
(* Cargo.toml, git tag in this order and returns the result of the first    *)
(* source that yields a non-empty text; a later source never overrides an   *)
(* earlier non-empty one; when every source yields the empty text the       *)
(* result is "0.0.0"; so the returned version is never empty.               *)
C1_FirstNonEmptySourceWins ==
    /\ tried = SubSeq(SourceOrder, 1, Len(tried))
    /\ pc \in AfterDetect =>
          /\ version # <<>>
          /\ \A j \in 1..(Len(tried) - 1) : SourceOutcome(j) = Ret(<<>>)
          /\ \/ SourceOutcome(Len(tried)) = Ret(version)
             \/ /\ Len(tried) = Len(SourceOrder)
                /\ SourceOutcome(Len(tried)) = Ret(<<>>)
                /\ version = DefaultVersion

\* Cargo.toml wins although the tag lookup would give a version too, and the
\* earlier sources were tried and gave nothing
C1_Witness ==
    /\ pc = "summarize"
    /\ version = VersionCargo
    /\ tried = SubSeq(SourceOrder, 1, 4)
    /\ files.pom = VersionFile(<<" ">>)
    /\ _version_from_git_tag(tag) = Ret(VersionTag)

(* C2: each version sub-detector returns the empty text, and raises         *)
(* nothing, when its file is missing and when reading or parsing its file   *)
(* raises; so detect_version completes with a value whatever the state of   *)
(* the manifest files.                                                      *)
C2_SubDetectorsAbsorbErrors ==
    /\ \A i \in 1..Min(Len(tried), 4) :
          Unusable(SourceFile(i)) => SourceOutcome(i) = Ret(<<>>)
    /\ pc = "crashed" => version # <<>>

(* C3: with before equal to the 40-zero sentinel, summarize_changes issues  *)
(* the log and diff queries on the after ref alone and returns the same     *)
(* ChangeSummary as with an empty or a blank before.                        *)
C3_SentinelEqualsEmptyBefore ==
    (pc \in AfterSummarize /\ safe_ref(args.before) = ZeroRef) =>
        /\ queries = (IF Strip(args.after) = <<>> THEN <<>>
                      ELSE <<[tool |-> "log", range |-> Strip(args.after)],
                             [tool |-> "diff", range |-> Strip(args.after)]>>)
        /\ queries = issued_queries(<<>>, args.after)
        /\ summary = summarize_changes(<<>>, args.after)
        /\ summary = summarize_changes(<<" ">>, args.after)

\* a sentinel before, a run whose after-alone log lists commits while the
\* log of a range would list others
C3_Witness ==
    /\ pc = "describe"
    /\ args.before = ZeroRef
    /\ Strip(args.after) # <<>>
    /\ summary.commits = <<<<"a">>, <<"b">>>>
    /\ git.log.ranged.rc = 0
    /\ summary.files_changed # <<>>

C5_CommitBulletsCappedInOrder ==
    (pc \in AfterDescribe /\ summary.commits # <<>>) =>
        LET lines == Split(description, "\n")
        IN  /\ Len(lines) = Min(Len(summary.commits), MaxBullets)
            /\ \A i \in 1..Len(lines) : lines[i] = <<"-", " ">> \o summary.commits[i]

\* more than 30 commits, and changed files as well
C5_Witness ==
    /\ pc = "mkdir"
    /\ Len(summary.commits) > MaxBullets
    /\ summary.files_changed # <<>>
    /\ Len(Split(description, "\n")) = MaxBullets

(* C6: guess_description falls back in a strict order: the file bullets     *)
(* are produced if and only if the commit list is empty and files_changed   *)
(* is not, and then there are min(m, 30) of them in the diff's order; the   *)
(* fixed sentence is returned if and only if both lists are empty.          *)
C6_StrictFallbackOrder ==
    pc \in AfterDescribe =>
        /\ (summary.commits = <<>> /\ summary.files_changed # <<>>)
              <=> description = FileBullets(summary.files_changed)
        /\ (summary.commits = <<>> /\ summary.files_changed # <<>>) =>
              Len(Split(description, "\n")) = Min(Len(summary.files_changed), MaxBullets)
        /\ (summary.commits = <<>> /\ summary.files_changed = <<>>)
              <=> description = NotInferred

\* no commits and more than 30 changed files
C6_Witness ==
    /\ pc = "mkdir"
    /\ summary.commits = <<>>
    /\ Len(summary.files_changed) > MaxBullets
    /\ description = FileBullets(summary.files_changed)

(* C7: the token made by the collapsing rule holds only characters of       *)
(* 0-9A-Za-z._- , for the directory name and for the version token; an      *)
(* empty input, or an input that collapses to nothing, gives the default    *)
(* token "repository" for the directory name; no token is empty.            *)
C7_TokensAreSafe ==
    LET name == repo_dir_name(args.repository)
    IN  /\ AllAllowed(name) /\ name # <<>>
        /\ (Strip(args.repository) = <<>>
            \/ Collapse(LastSegment(Strip(args.repository))) = <<>>) => name = DefaultDirName
        /\ out_dir # <<>> => out_dir = PathJoin(Path(args.output_dir), name)
        /\ pc \in AfterDetect => AllAllowed(safe_version(version)) /\ safe_version(version) # <<>>
        /\ out_file # <<>> =>
              out_file = PathJoin(out_dir, <<"v">> \o safe_version(version) \o <<"-">> \o clock
                                             \o <<".", "m", "d">>)

\* an identifier that is not empty and whose last segment collapses to nothing
C7_Witness ==
    /\ pc = "done"
    /\ Strip(args.repository) # <<>>
    /\ LastSegment(Strip(args.repository)) = <<>>
    /\ out_dir = <<<<"o", "u", "t">>, DefaultDirName>>

(* C8, as stated: with version "2.3.1" from package.json and repository     *)
(* "acme/widgets" the file is <output-dir>/acme_widgets/v2.3.1-<today>.md   *)
(* and the title "v2.3.1 - <today>"; the subdirectory for org/repo is the   *)
(* whole identifier with its characters outside the class collapsed to "_". *)
C8_WholeIdentifierNamesDirectory ==
    /\ (pc \in {"written", "done"} /\ version = VersionPkg
        /\ args.repository = BaseArgs.repository) =>
          /\ out_file = <<<<"o", "u", "t">>, <<"a", "c", "m", "e", "_", "w", "i", "d", "g", "e", "t", "s">>,
                          <<"v">> \o VersionPkg \o <<"-">> \o clock \o <<".", "m", "d">>>>
          /\ title = <<"v">> \o VersionPkg \o <<" ", "-", " ">> \o clock
    /\ (out_dir # <<>> /\ Len(Split(Strip(args.repository), "/")) = 2) =>
          out_dir = PathJoin(Path(args.output_dir), Collapse(Strip(args.repository)))

(* C8, amended: with version "2.3.1" from package.json and repository       *)
(* "acme/widgets" the file is <output-dir>/widgets/v2.3.1-<today>.md and    *)
(* the title "v2.3.1 - <today>"; the subdirectory for org/repo is the last  *)
(* segment, repo, with its characters outside the class collapsed to "_".   *)
C8_LastSegmentNamesDirectory ==
    /\ (pc \in {"written", "done"} /\ version = VersionPkg
        /\ args.repository = BaseArgs.repository) =>
          /\ out_file = <<<<"o", "u", "t">>, <<"w", "i", "d", "g", "e", "t", "s">>,
                          <<"v">> \o VersionPkg \o <<"-">> \o clock \o <<".", "m", "d">>>>
          /\ title = <<"v">> \o VersionPkg \o <<" ", "-", " ">> \o clock
          /\ \E f \in disk.files : f.path = out_file
    /\ (out_dir # <<>> /\ Len(Split(Strip(args.repository), "/")) = 2
        /\ LastSegment(Strip(args.repository)) # <<>>) =>
          out_dir = PathJoin(Path(args.output_dir), Collapse(LastSegment(Strip(args.repository))))

\* the scenario of the claim, run to its end
C8_Witness ==
    /\ pc = "done"
    /\ files.package_json = VersionFile(VersionPkg)
    /\ args.repository = <<"a", "c", "m", "e", "/", "w", "i", "d", "g", "e", "t", "s">>
    /\ \E f \in disk.files : f.path = out_file

(* C9: no failure of version detection and no failure of git log or git     *)
(* diff ends a run early; a run ends with a non-zero exit only when the     *)
(* directory creation or the file write fails, and exit code 0 is returned  *)
(* only after the file has been written.                                    *)
C9_OnlyFileSystemFailuresAreFatal ==
    /\ pc = "crashed" => (out_dir # <<>> /\ (~fs.mkdir \/ ~fs.write))
    /\ exit_code \notin {-1, 0} => (~fs.mkdir \/ ~fs.write)
    /\ exit_code = 0 => \E f \in disk.files : f.path = Resolve(out_file)

(* C10: the file written by main lies exactly two levels below output-dir:  *)
(* the name from repo_dir_name is one non-empty component without "/" that  *)
(* is neither "." nor "..", and the file name holds no "/"; no input makes  *)
(* main make a directory or write a file outside output-dir.                *)
C10_OutputStaysBelowOutputDir ==
    LET name == repo_dir_name(args.repository)
        base == Path(args.output_dir)
    IN  /\ out_dir # <<>> => ProperComponent(name)
        /\ out_file # <<>> => ProperComponent(file_name(version, clock))
        /\ \A d \in disk.dirs : d = Append(base, name)
        /\ \A f \in disk.files : f.path = base \o <<name, file_name(version, clock)>>

====
